---------------------------- MODULE Spec2Model ----------------------------
(***************************************************************************)
(* Model of the Mython lexer (src/include/lexer.h, src/src/lexer.cpp).     *)
(*                                                                         *)
(* A character is a one-character string; the input stream is a sequence   *)
(* of characters and a cursor `pos` (index of the next character to be     *)
(* read, Len(input)+1 at end of input).  The stream's eofbit/failbit are   *)
(* not modelled separately: every get() that fails does so at end of       *)
(* input, putback() is only called right after a successful get(), so the  *)
(* flags are set exactly when a read was attempted at pos > Len(input)     *)
(* and from then on every peek()/get() keeps reporting end of input.       *)
(* Inputs are 7-bit text (char is signed on the modelled build, so every   *)
(* character differs from traits_type::eof()).  The uint32_t indent        *)
(* counters never exceed the length of the input, so they never wrap.      *)
(***************************************************************************)
EXTENDS Integers, Sequences, FiniteSets, TLC

VARIABLES
    input,          \* the characters of the std::istream given to the Lexer
    pos,            \* the stream's read position (1-based)
    start_of_line,  \* Lexer::start_of_line_
    current_indent, \* Lexer::current_indent_
    line_indent,    \* Lexer::line_indent_
    current_token,  \* Lexer::current_token_
    err,            \* exception that left the last operation ("none" if it returned):
                    \* "runtime_error", "out_of_range" or "LexerError"
    ub,             \* TRUE once an uninitialized char has been read (ReadString)
    reader,         \* literal reader run by the last advance ("none" if none)
    tok_begin,      \* cursor position at which that reader started (0 if none)
    skips,          \* re-dispatches (nested ReadNextToken calls) of the last advance
    op,             \* the last public operation performed
    expected,       \* argument of the last Expect/ExpectNext
    result,         \* value returned by the last operation
    tokens,         \* history: tokens produced by the advances so far
    prev            \* history: the Lexer's fields before the last operation

vars == <<input, pos, start_of_line, current_indent, line_indent, current_token,
          err, ub, reader, tok_begin, skips, op, expected, result, tokens,
          prev>>

----------------------------------------------------------------------------
(* Bounds of the model *)

MaxLen == 6
MaxStrLen == 4
MaxOpLen == 4
MaxNameLen == 4
MaxMixLen == 4
MaxEof == 2

----------------------------------------------------------------------------
(* Characters *)

EOFc == "EOF"

Digits == {"0", "1", "2", "3", "4", "5", "6", "7", "8", "9"}

Letters ==
    {"a", "b", "c", "d", "e", "f", "g", "h", "i", "j", "k", "l", "m",
     "n", "o", "p", "q", "r", "s", "t", "u", "v", "w", "x", "y", "z",
     "A", "B", "C", "D", "E", "F", "G", "H", "I", "J", "K", "L", "M",
     "N", "O", "P", "Q", "R", "S", "T", "U", "V", "W", "X", "Y", "Z"}

IsNum(ch) == ch \in Digits

IsAlpha(ch) == ch \in Letters

IsAlNum(ch) == ch \in Digits \cup Letters

IsAlNumLL(ch) == IsAlNum(ch) \/ ch = "_"

DigitValue(ch) ==
    CASE ch = "0" -> 0 [] ch = "1" -> 1 [] ch = "2" -> 2 [] ch = "3" -> 3
      [] ch = "4" -> 4 [] ch = "5" -> 5 [] ch = "6" -> 6 [] ch = "7" -> 7
      [] ch = "8" -> 8 [] ch = "9" -> 9

----------------------------------------------------------------------------
(* Tokens: a variant tag, and the value of the four valued variants *)

Token(type) == [type |-> type, num |-> 0, str |-> <<>>]

NumberToken(v) == [type |-> "Number", num |-> v, str |-> <<>>]

IdToken(name) == [type |-> "Id", num |-> 0, str |-> name]

StringToken(s) == [type |-> "String", num |-> 0, str |-> s]

CharToken(ch) == [type |-> "Char", num |-> 0, str |-> <<ch>>]

\* Token current_token_; : a default-constructed variant holds its first
\* alternative, value-initialized
DefaultToken == NumberToken(0)

TokenEq(lhs, rhs) ==
    IF lhs.type # rhs.type THEN FALSE
    ELSE IF lhs.type = "Char" THEN lhs.str = rhs.str
    ELSE IF lhs.type = "Number" THEN lhs.num = rhs.num
    ELSE IF lhs.type = "String" THEN lhs.str = rhs.str
    ELSE IF lhs.type = "Id" THEN lhs.str = rhs.str
    ELSE TRUE

KeyWords ==
    { <<"c", "l", "a", "s", "s">>, <<"r", "e", "t", "u", "r", "n">>,
      <<"i", "f">>, <<"e", "l", "s", "e">>, <<"d", "e", "f">>,
      <<"p", "r", "i", "n", "t">>, <<"a", "n", "d">>, <<"o", "r">>,
      <<"n", "o", "t">>, <<"N", "o", "n", "e">>, <<"T", "r", "u", "e">>,
      <<"F", "a", "l", "s", "e">> }

KeyWordToken(name) ==
    CASE name = <<"c", "l", "a", "s", "s">> -> Token("Class")
      [] name = <<"r", "e", "t", "u", "r", "n">> -> Token("Return")
      [] name = <<"i", "f">> -> Token("If")
      [] name = <<"e", "l", "s", "e">> -> Token("Else")
      [] name = <<"d", "e", "f">> -> Token("Def")
      [] name = <<"p", "r", "i", "n", "t">> -> Token("Print")
      [] name = <<"a", "n", "d">> -> Token("And")
      [] name = <<"o", "r">> -> Token("Or")
      [] name = <<"n", "o", "t">> -> Token("Not")
      [] name = <<"N", "o", "n", "e">> -> Token("None")
      [] name = <<"T", "r", "u", "e">> -> Token("True")
      [] name = <<"F", "a", "l", "s", "e">> -> Token("False")

DualSymbols == { <<"=", "=">>, <<"!", "=">>, <<">", "=">>, <<"<", "=">> }

DualSymbolToken(pair) ==
    CASE pair = <<"=", "=">> -> Token("Eq")
      [] pair = <<"!", "=">> -> Token("NotEq")
      [] pair = <<">", "=">> -> Token("GreaterOrEq")
      [] pair = <<"<", "=">> -> Token("LessOrEq")

----------------------------------------------------------------------------
(* The character source and the readers of namespace util *)

\* input.peek(): the next character, or end of input
Peek(inp, p) == IF p > Len(inp) THEN EOFc ELSE inp[p]

\* getline(input, s): the position after the next '\n', or the end of input
RECURSIVE ReadLine(_, _)
ReadLine(inp, p) ==
    IF p > Len(inp) THEN p
    ELSE IF inp[p] = "\n" THEN p + 1
    ELSE ReadLine(inp, p + 1)

RECURSIVE CountSpaces(_, _)
CountSpaces(inp, p) ==
    IF p <= Len(inp) /\ inp[p] = " "
    THEN LET r == CountSpaces(inp, p + 1)
         IN  [count |-> r.count + 1, pos |-> r.pos]
    ELSE [count |-> 0, pos |-> p]

RECURSIVE ReadName(_, _)
ReadName(inp, p) ==
    IF p <= Len(inp) /\ IsAlNumLL(inp[p])
    THEN LET r == ReadName(inp, p + 1)
         IN  [line |-> <<inp[p]>> \o r.line, pos |-> r.pos]
    ELSE [line |-> <<>>, pos |-> p]

\* the while (input.get(c)) loop of ReadNumber: the position of the first
\* character at or after p that is no digit (it is put back)
RECURSIVE DigitsEnd(_, _)
DigitsEnd(inp, p) ==
    IF p <= Len(inp) /\ IsNum(inp[p]) THEN DigitsEnd(inp, p + 1) ELSE p

\* the digits collected in num, and the position after them
ReadDigits(inp, p) ==
    [num |-> SubSeq(inp, p, DigitsEnd(inp, p) - 1), pos |-> DigitsEnd(inp, p)]

\* the largest value of int (std::numeric_limits<int>::max())
IntMax == 2147483647

\* the decimal value of the first n digits of num (if it fits an int)
RECURSIVE StoiValue(_, _)
StoiValue(num, n) ==
    IF n = 0 THEN 0
    ELSE 10 * StoiValue(num, n - 1) + DigitValue(num[n])

\* the value of the first n digits of num does not fit an int: that of the
\* first n - 1 does not, or the n-th digit takes it beyond IntMax
RECURSIVE StoiOverflows(_, _)
StoiOverflows(num, n) ==
    IF n = 0 THEN FALSE
    ELSE \/ StoiOverflows(num, n - 1)
         \/ StoiValue(num, n - 1) > (IntMax - DigitValue(num[n])) \div 10

\* std::stoi on a run of decimal digits.
\* ok = FALSE: throws std::out_of_range, the value does not fit an int
Stoi(num) ==
    IF StoiOverflows(num, Len(num)) THEN [ok |-> FALSE, value |-> 0]
    ELSE [ok |-> TRUE, value |-> StoiValue(num, Len(num))]

\* ok = FALSE: the std::out_of_range of std::stoi, thrown after the whole
\* run of digits has been read
ReadNumber(inp, p) ==
    LET r == ReadDigits(inp, p)
    IN  IF r.num = <<>> THEN [ok |-> TRUE, value |-> 0, pos |-> r.pos]
        ELSE [ok |-> Stoi(r.num).ok, value |-> Stoi(r.num).value, pos |-> r.pos]

\* what an escape sequence \next appends to the literal
\* Escape with an unknown escape sequence keeping the escaped character
EscapeKeepsUnknown(next) ==
    IF next = "\"" THEN <<"\"">>
    ELSE IF next = "'" THEN <<"'">>
    ELSE IF next = "n" THEN <<"\n">>
    ELSE IF next = "t" THEN <<"\t">>
    ELSE <<next>>

Escape(next) ==
    IF next = "\"" THEN <<"\"">>
    ELSE IF next = "'" THEN <<"'">>
    ELSE IF next = "n" THEN <<"\n">>
    ELSE IF next = "t" THEN <<"\t">>
    ELSE <<>>

\* the while (input.get(c)) loop of ReadString; c is the last value of the
\* variable c, junk.next the content of the uninitialized variable next
RECURSIVE ReadStringLoop(_, _, _, _, _, _, _)
ReadStringLoop(inp, p, first, c, line, uninit, junk) ==
    IF p > Len(inp) THEN [c |-> c, line |-> line, pos |-> p, ub |-> uninit]
    ELSE IF inp[p] = "\\"
    THEN LET has == p + 1 <= Len(inp)
             next == IF has THEN inp[p + 1] ELSE junk.next
         IN  ReadStringLoop(inp, IF has THEN p + 2 ELSE p + 1, first, inp[p],
                            line \o Escape(next), uninit \/ ~has, junk)
    ELSE IF inp[p] = first
    THEN [c |-> inp[p], line |-> line, pos |-> p + 1, ub |-> uninit]
    ELSE ReadStringLoop(inp, p + 1, first, inp[p], line \o <<inp[p]>>, uninit, junk)

\* ok = FALSE: throws std::runtime_error("Failed to parse string : " + line).
\* junk.c is the content of the uninitialized variable c, which is read by
\* the final test c != first when the very first get(c) fails.
ReadString(inp, p, junk) ==
    LET first == inp[p]
        r == ReadStringLoop(inp, p + 1, first, junk.c, <<>>, FALSE, junk)
    IN  [ok |-> r.c = first, line |-> r.line, pos |-> r.pos,
         ub |-> r.ub \/ p + 1 > Len(inp)]

\* the while (input_.get(c)) loop of ParseComment: stops in front of '\n'
RECURSIVE SkipComment(_, _)
SkipComment(inp, p) ==
    IF p > Len(inp) THEN p
    ELSE IF inp[p] = "\n" THEN p
    ELSE SkipComment(inp, p + 1)

----------------------------------------------------------------------------
(* The Lexer.  L is the record of the Lexer's fields and the stream cursor *)

\* NextLine without start_of_line_ = true
NextLineKeepsFlag(inp, L) ==
    [L EXCEPT !.pos = ReadLine(inp, L.pos),
              !.line_indent = 0]

NextLine(inp, L) ==
    [L EXCEPT !.pos = ReadLine(inp, L.pos),
              !.start_of_line = TRUE,
              !.line_indent = 0]

\* ParseEOF with Eof handled like a significant token (start_of_line_ cleared)
ParseEOFLeavesLineStart(inp, L) ==
    IF ~L.start_of_line
    THEN [NextLine(inp, L) EXCEPT !.current_token = Token("Newline")]
    ELSE IF L.current_indent > 0
    THEN [L EXCEPT !.current_indent = L.current_indent - 1,
                   !.current_token = Token("Dedent")]
    ELSE [L EXCEPT !.current_token = Token("Eof"), !.start_of_line = FALSE]

\* ParseEOF closing every open level with a single Dedent
ParseEOFClosesAll(inp, L) ==
    IF ~L.start_of_line
    THEN [NextLine(inp, L) EXCEPT !.current_token = Token("Newline")]
    ELSE IF L.current_indent > 0
    THEN [L EXCEPT !.current_indent = 0,
                   !.current_token = Token("Dedent")]
    ELSE [L EXCEPT !.current_token = Token("Eof")]

\* ParseEOF without the implicit Newline of an unterminated last line
ParseEOFNoNewline(inp, L) ==
    IF L.current_indent > 0
    THEN [L EXCEPT !.current_indent = L.current_indent - 1,
                   !.current_token = Token("Dedent")]
    ELSE [NextLine(inp, L) EXCEPT !.current_token = Token("Eof")]

ParseEOF(inp, L) ==
    IF ~L.start_of_line
    THEN [NextLine(inp, L) EXCEPT !.current_token = Token("Newline")]
    ELSE IF L.current_indent > 0
    THEN [L EXCEPT !.current_indent = L.current_indent - 1,
                   !.current_token = Token("Dedent")]
    ELSE [L EXCEPT !.current_token = Token("Eof")]

\* ParseIndent with the decrement of the Dedent branch forgotten
ParseIndentKeepsDepth(L) ==
    IF L.current_indent < L.line_indent
    THEN [L EXCEPT !.current_indent = L.current_indent + 1,
                   !.current_token = Token("Indent")]
    ELSE IF L.current_indent > L.line_indent
    THEN [L EXCEPT !.current_token = Token("Dedent")]
    ELSE L

\* ParseIndent moving to the line's depth with a single token
ParseIndentJumps(L) ==
    IF L.current_indent < L.line_indent
    THEN [L EXCEPT !.current_indent = L.line_indent,
                   !.current_token = Token("Indent")]
    ELSE IF L.current_indent > L.line_indent
    THEN [L EXCEPT !.current_indent = L.line_indent,
                   !.current_token = Token("Dedent")]
    ELSE L

ParseIndent(L) ==
    IF L.current_indent < L.line_indent
    THEN [L EXCEPT !.current_indent = L.current_indent + 1,
                   !.current_token = Token("Indent")]
    ELSE IF L.current_indent > L.line_indent
    THEN [L EXCEPT !.current_indent = L.current_indent - 1,
                   !.current_token = Token("Dedent")]
    ELSE L

\* ParseName without the look-up in KeyWords
ParseNameNoKeywords(inp, L) ==
    LET r == ReadName(inp, L.pos)
    IN  [L EXCEPT !.pos = r.pos, !.current_token = IdToken(r.line)]

ParseName(inp, L) ==
    LET r == ReadName(inp, L.pos)
    IN  [L EXCEPT !.pos = r.pos,
                  !.current_token = IF r.line \in KeyWords
                                    THEN KeyWordToken(r.line)
                                    ELSE IdToken(r.line)]

\* ParseChar taking the second character with get() where the code peeks
ParseCharEatsSecond(inp, L) ==
    LET first == inp[L.pos]
        second == Peek(inp, L.pos + 1)
    IN  IF <<first, second>> \in DualSymbols
        THEN [L EXCEPT !.pos = L.pos + 2,
                       !.current_token = DualSymbolToken(<<first, second>>)]
        ELSE [L EXCEPT !.pos = IF second = EOFc THEN L.pos + 1 ELSE L.pos + 2,
                       !.current_token = CharToken(first)]

ParseChar(inp, L) ==
    LET first == inp[L.pos]
        second == Peek(inp, L.pos + 1)
    IN  IF <<first, second>> \in DualSymbols
        THEN [L EXCEPT !.pos = L.pos + 2,
                       !.current_token = DualSymbolToken(<<first, second>>)]
        ELSE [L EXCEPT !.pos = L.pos + 1,
                       !.current_token = CharToken(first)]

ParseToken(inp, L, junk) ==
    LET ch == Peek(inp, L.pos)
    IN  IF IsNum(ch)
        THEN LET r == ReadNumber(inp, L.pos)
             IN  IF r.ok
                 THEN [L EXCEPT !.pos = r.pos, !.reader = "number",
                                !.tok_begin = L.pos,
                                !.current_token = NumberToken(r.value)]
                 ELSE [L EXCEPT !.pos = r.pos, !.reader = "number",
                                !.tok_begin = L.pos,
                                !.err = "out_of_range"]
        ELSE IF IsAlNumLL(ch)
        THEN [ParseName(inp, L) EXCEPT !.reader = "name", !.tok_begin = L.pos]
        ELSE IF ch = "\"" \/ ch = "'"
        THEN LET r == ReadString(inp, L.pos, junk)
             IN  IF r.ok
                 THEN [L EXCEPT !.pos = r.pos, !.reader = "string",
                                !.tok_begin = L.pos, !.ub = r.ub,
                                !.current_token = StringToken(r.line)]
                 ELSE [L EXCEPT !.pos = r.pos, !.reader = "string",
                                !.tok_begin = L.pos, !.ub = r.ub,
                                !.err = "runtime_error"]
        ELSE [ParseChar(inp, L) EXCEPT !.reader = "char", !.tok_begin = L.pos]

RECURSIVE ReadNextToken(_, _, _)

\* ParseComment dropping the whole line, its newline included (getline)
ParseCommentEatsNewline(inp, L, junk) ==
    ReadNextToken(inp,
        [L EXCEPT !.pos = ReadLine(inp, L.pos), !.skips = L.skips + 1],
        junk)

ParseComment(inp, L, junk) ==
    ReadNextToken(inp,
        [L EXCEPT !.pos = SkipComment(inp, L.pos), !.skips = L.skips + 1],
        junk)

\* ParseLineEnd emitting a Newline for blank lines too
ParseLineEndAlwaysNewline(inp, L, junk) ==
    [NextLine(inp, L) EXCEPT !.current_token = Token("Newline")]

ParseLineEnd(inp, L, junk) ==
    IF L.start_of_line
    THEN ReadNextToken(inp, [NextLine(inp, L) EXCEPT !.skips = L.skips + 1],
                       junk)
    ELSE [NextLine(inp, L) EXCEPT !.current_token = Token("Newline")]

\* ParseSpaces measuring the indentation at every run of spaces
ParseSpacesAlways(inp, L, junk) ==
    LET r == CountSpaces(inp, L.pos)
    IN  ReadNextToken(inp,
            [L EXCEPT !.pos = r.pos,
                      !.line_indent = r.count \div 2,
                      !.skips = L.skips + 1],
            junk)

ParseSpaces(inp, L, junk) ==
    LET r == CountSpaces(inp, L.pos)
    IN  ReadNextToken(inp,
            [L EXCEPT !.pos = r.pos,
                      !.line_indent = IF L.start_of_line
                                      THEN r.count \div 2
                                      ELSE L.line_indent,
                      !.skips = L.skips + 1],
            junk)

ReadNextToken(inp, L, junk) ==
    LET ch == Peek(inp, L.pos)
    IN  IF ch = EOFc THEN ParseEOF(inp, L)
        ELSE IF ch = "\n" THEN ParseLineEnd(inp, L, junk)
        ELSE IF ch = "#" THEN ParseComment(inp, L, junk)
        ELSE IF ch = " " THEN ParseSpaces(inp, L, junk)
        ELSE IF L.start_of_line /\ L.current_indent # L.line_indent
        THEN ParseIndent(L)
        ELSE LET T == ParseToken(inp, L, junk)
             IN  IF T.err = "none"
                 THEN [T EXCEPT !.start_of_line = FALSE]
                 ELSE T


----------------------------------------------------------------------------
(* The public operations of class Lexer *)

\* CurrentToken returning a token that was never assigned
CurrentTokenUnset(L) == DefaultToken

\* const Token& CurrentToken() const
CurrentTokenOf(L) == L.current_token

\* Expect<T>(): current_token_.Is<T>()
ExpectType(tok, T) == tok.type = T

\* the member `value` of a valued token
TokenValue(tok) == IF tok.type = "Number" THEN tok.num ELSE tok.str

\* Expect<T>(value) without the comparison of the values
ExpectValueTypeOnly(tok, want) == tok.type = want.type

\* Expect<T>(value): current_token_.Is<T>() && current_token_.As<T>().value == value
ExpectValue(tok, want) ==
    tok.type = want.type /\ TokenValue(tok) = TokenValue(want)

\* an expectation e: the type T (e.tok.type) and, for the valued form, the value
ExpectHolds(tok, e) ==
    IF e.valued THEN ExpectValue(tok, e.tok) ELSE ExpectType(tok, e.tok.type)

----------------------------------------------------------------------------
(* Inputs, and the arguments the caller passes *)

SeqsUpTo(S, n) == UNION { [1..k -> S] : k \in 0..n }

LayoutChars == {" ", "\n", "x", "#"}

StringChars == {"\"", "'", "\\", "n", "\n"}

OperatorChars == {"=", "!", "<", ">", "\n"}

NameChars == {"i", "f", "_", "1", " "}

MixChars == {"'", "#", "x", "\n", "\\"}

\* the twelve keywords, names that differ from them in case or length, the
\* escape sequences, an operator between operands, numbers at and beyond
\* the largest int, the latter also as the first token of an indented line
WordSamples ==
    { <<"c", "l", "a", "s", "s", " ", "r", "e", "t", "u", "r", "n", " ",
        "i", "f", " ", "e", "l", "s", "e", " ", "d", "e", "f", " ",
        "p", "r", "i", "n", "t", "\n">>,
      <<"a", "n", "d", " ", "o", "r", " ", "n", "o", "t", " ",
        "N", "o", "n", "e", " ", "T", "r", "u", "e", " ",
        "F", "a", "l", "s", "e">>,
      <<"n", "o", "n", "e", " ", "I", "f", " ", "T", "r", "u", "e", "_", " ",
        "o", "r", "1", " ", "1", "2", "o", "r">>,
      <<"'", "\\", "t", "\\", "'", "\\", "x", "\"", "'">>,
      <<"x", ">", "=", "1", ":">>,
      <<"2", "1", "4", "7", "4", "8", "3", "6", "4", "7">>,
      <<"2", "1", "4", "7", "4", "8", "3", "6", "4", "8", " ", "x">>,
      <<"x", " ", "=", " ", "9", "9", "9", "9", "9", "9", "9", "9", "9", "9",
        "9", "\n">>,
      <<"0", "0", "0", "0", "0", "0", "0", "0", "0", "0", "1", "2", "a">>,
      <<" ", " ", "x", "\n", " ", " ", "9", "9", "9", "9", "9", "9", "9", "9",
        "9", "9", "9">> }

\* the examples of the specification, and a two-level dedent
Samples ==
    { <<"x", " ", "=", " ", "1", "\n">>,
      <<"i", "f", " ", "x", ":", "\n", " ", " ", "r", "e", "t", "u", "r", "n",
        " ", "x", "\n">>,
      <<"x", " ", "=", "=", " ", "2", "\n">>,
      <<" ", " ", " ", " ", "x", "\n", "x", "\n">> }

Inputs ==
    SeqsUpTo(LayoutChars, MaxLen) \cup SeqsUpTo(StringChars, MaxStrLen)
        \cup SeqsUpTo(OperatorChars, MaxOpLen)
        \cup SeqsUpTo(NameChars, MaxNameLen)
        \cup SeqsUpTo(MixChars, MaxMixLen)
        \cup Samples \cup WordSamples

\* values an uninitialized char may hold: each of the four that the escape
\* tests of ReadString tell apart (", ', n, t; the two quotes are also the
\* values the final test c != first can meet) and one that none of them meets
Uninit == {"\"", "'", "n", "t", "x"}

Junks == [c : Uninit, next : Uninit]

AnyJunk == [c |-> "x", next |-> "x"]

Void == Token("void")

NoExpect == [valued |-> FALSE, tok |-> Void]

Expectations ==
    { [valued |-> FALSE, tok |-> Token("Eof")],
      [valued |-> TRUE, tok |-> IdToken(<<"x">>)] }

----------------------------------------------------------------------------
(* The state machine.  A state is a Lexer after its construction and some  *)
(* calls of its public operations by one caller.  An exception (the        *)
(* std::runtime_error of ReadString, the std::out_of_range of std::stoi in  *)
(* ReadNumber, the LexerError of Expect) propagates                         *)
(* to the caller and ends the scan: err records it and no operation        *)
(* follows.  An exception thrown by the constructor leaves no Lexer at all. *)

\* the Lexer's fields as the record the operators above work on
Lex ==
    [pos |-> pos, start_of_line |-> start_of_line,
     current_indent |-> current_indent, line_indent |-> line_indent,
     current_token |-> current_token, err |-> "none", ub |-> FALSE,
     reader |-> "none", tok_begin |-> 0, skips |-> 0]

\* bool start_of_line_ = true; uint32_t current_indent_ = 0;
\* uint32_t line_indent_ = 0; Token current_token_;
NewLexer ==
    [pos |-> 1, start_of_line |-> TRUE, current_indent |-> 0, line_indent |-> 0,
     current_token |-> DefaultToken, err |-> "none", ub |-> FALSE,
     reader |-> "none", tok_begin |-> 0, skips |-> 0]

Snapshot(L, hist) ==
    [pos |-> L.pos, start_of_line |-> L.start_of_line,
     current_indent |-> L.current_indent, line_indent |-> L.line_indent,
     current_token |-> L.current_token, ntok |-> Len(hist)]

IsEofToken(t) == t.type = "Eof"

\* The outcomes of an advance from L: one per content of the uninitialized
\* variables if the advance reads one (whether it does is independent of
\* their content), a single one otherwise.
Outcomes(inp, L) ==
    IF ReadNextToken(inp, L, AnyJunk).ub
    THEN { ReadNextToken(inp, L, junk) : junk \in Junks }
    ELSE { ReadNextToken(inp, L, AnyJunk) }

\* the caller stops advancing after MaxEof Eof tokens
CanAdvance ==
    /\ Len(SelectSeq(tokens, IsEofToken)) < MaxEof
    /\ Len(tokens) < 2 * MaxLen + MaxEof

\* the Lexer's fields and the history after an advance that ended as R
Advanced(R) ==
    /\ pos' = R.pos
    /\ start_of_line' = R.start_of_line
    /\ current_indent' = R.current_indent
    /\ line_indent' = R.line_indent
    /\ current_token' = R.current_token
    /\ ub' = (ub \/ R.ub)
    /\ reader' = R.reader
    /\ tok_begin' = R.tok_begin
    /\ skips' = R.skips
    /\ tokens' = IF R.err = "none" THEN Append(tokens, R.current_token) ELSE tokens

\* Lexer::Lexer(std::istream& input) : input_{input} { ReadNextToken(); }
Init ==
    /\ input \in Inputs
    /\ \E R \in Outcomes(input, NewLexer) :
             /\ pos = R.pos
             /\ start_of_line = R.start_of_line
             /\ current_indent = R.current_indent
             /\ line_indent = R.line_indent
             /\ current_token = R.current_token
             /\ err = R.err
             /\ ub = R.ub
             /\ reader = R.reader
             /\ tok_begin = R.tok_begin
             /\ skips = R.skips
             /\ tokens = IF R.err = "none" THEN <<R.current_token>> ELSE <<>>
    /\ op = "Lexer"
    /\ expected = NoExpect
    /\ result = Void
    /\ prev = Snapshot(NewLexer, <<>>)

\* Token NextToken() { ReadNextToken(); return current_token_; }
NextToken ==
    /\ err = "none"
    /\ CanAdvance
    /\ \E R \in Outcomes(input, Lex) :
             /\ Advanced(R)
             /\ err' = R.err
             /\ result' = IF R.err = "none" THEN R.current_token ELSE Void
    /\ op' = "NextToken"
    /\ expected' = NoExpect
    /\ prev' = Snapshot(Lex, tokens)
    /\ UNCHANGED input

CurrentToken ==
    /\ err = "none"
    /\ op' = "CurrentToken"
    /\ result' = CurrentTokenOf(Lex)
    /\ expected' = NoExpect
    /\ reader' = "none"
    /\ tok_begin' = 0
    /\ skips' = 0
    /\ prev' = Snapshot(Lex, tokens)
    /\ UNCHANGED <<input, pos, start_of_line, current_indent, line_indent,
                   current_token, err, ub, tokens>>

\* Expect<T>() and Expect<T>(value)
Expect ==
    /\ err = "none"
    /\ \E e \in Expectations :
         /\ expected' = e
         /\ err' = IF ExpectHolds(current_token, e) THEN "none" ELSE "LexerError"
         /\ result' = IF ExpectHolds(current_token, e) /\ ~e.valued
                      THEN current_token ELSE Void
    /\ op' = "Expect"
    /\ reader' = "none"
    /\ tok_begin' = 0
    /\ skips' = 0
    /\ prev' = Snapshot(Lex, tokens)
    /\ UNCHANGED <<input, pos, start_of_line, current_indent, line_indent,
                   current_token, ub, tokens>>

\* ExpectNext<T>() and ExpectNext<T>(value): NextToken(); then Expect
ExpectNext ==
    /\ err = "none"
    /\ CanAdvance
    /\ \E e \in Expectations, R \in Outcomes(input, Lex) :
         LET holds == ExpectHolds(R.current_token, e)
         IN  /\ Advanced(R)
             /\ expected' = e
             /\ err' = IF R.err # "none" THEN R.err
                       ELSE IF holds THEN "none" ELSE "LexerError"
             /\ result' = IF R.err = "none" /\ holds /\ ~e.valued
                          THEN R.current_token ELSE Void
    /\ op' = "ExpectNext"
    /\ prev' = Snapshot(Lex, tokens)
    /\ UNCHANGED input

Next == NextToken \/ CurrentToken \/ Expect \/ ExpectNext

Spec == Init /\ [][Next]_vars

\* a caller that does nothing but advance, and keeps advancing
FairSpec == Init /\ [][NextToken]_vars /\ WF_vars(NextToken)

----------------------------------------------------------------------------
(* Definitions used to state the properties *)

\* the last operation was an advance (the constructor's read included)
IsAdvance == op \in {"Lexer", "NextToken", "ExpectNext"}

\* ... and it produced a token
Produced == IsAdvance /\ Len(tokens) = prev.ntok + 1

SameFields ==
    /\ pos = prev.pos
    /\ start_of_line = prev.start_of_line
    /\ current_indent = prev.current_indent
    /\ line_indent = prev.line_indent
    /\ current_token = prev.current_token
    /\ Len(tokens) = prev.ntok

Count(seq, type) == Cardinality({ i \in 1..Len(seq) : seq[i].type = type })

Balance(seq) == Count(seq, "Indent") - Count(seq, "Dedent")

Structural(t) == t.type \in {"Indent", "Dedent"}

Prefix(seq, n) == SubSeq(seq, 1, n)

\* index of the first Eof of seq (0 if none)
FirstEof(seq) ==
    IF \E i \in 1..Len(seq) : seq[i].type = "Eof"
    THEN CHOOSE i \in 1..Len(seq) :
            /\ seq[i].type = "Eof"
            /\ \A j \in 1..(i - 1) : seq[j].type # "Eof"
    ELSE 0

\* from position p on the input holds only spaces, newlines and comments
RECURSIVE OnlyBlank(_, _)
OnlyBlank(inp, p) ==
    IF p > Len(inp) THEN TRUE
    ELSE IF inp[p] \in {" ", "\n"} THEN OnlyBlank(inp, p + 1)
    ELSE IF inp[p] = "#" THEN OnlyBlank(inp, SkipComment(inp, p))
    ELSE FALSE

\* the scanner S stands at a line start and only the end of input is ahead
AtEndOfInput(S) == S.start_of_line /\ OnlyBlank(input, S.pos)

Here ==
    [pos |-> pos, start_of_line |-> start_of_line,
     current_indent |-> current_indent, line_indent |-> line_indent]

\* first position of the line that holds position q
LineStart(inp, q) ==
    IF \E i \in 1..(q - 1) : inp[i] = "\n"
    THEN 1 + CHOOSE i \in 1..(q - 1) :
                /\ inp[i] = "\n"
                /\ \A j \in (i + 1)..(q - 1) : inp[j] # "\n"
    ELSE 1

\* index of the last token of seq that is neither Indent nor Dedent (0 if none)
LastNonStructural(seq) ==
    IF \E i \in 1..Len(seq) : ~Structural(seq[i])
    THEN CHOOSE i \in 1..Len(seq) :
            /\ ~Structural(seq[i])
            /\ \A j \in (i + 1)..Len(seq) : Structural(seq[j])
    ELSE 0

Abs(n) == IF n < 0 THEN -n ELSE n

\* A whole scan of inp: the tokens of the constructor's read and of the
\* NextToken calls up to the first Eof, or up to the exception.
RECURSIVE ScanFrom(_, _, _, _)
ScanFrom(inp, L, junk, acc) ==
    LET R == ReadNextToken(inp, [L EXCEPT !.reader = "none", !.tok_begin = 0,
                                         !.skips = 0], junk)
        out == Append(acc, R.current_token)
    IN  IF R.err # "none"
        THEN [tokens |-> acc, failed |-> TRUE, ub |-> L.ub \/ R.ub]
        ELSE IF R.current_token.type = "Eof" \/ Len(out) > 2 * Len(inp) + 3
        THEN [tokens |-> out, failed |-> FALSE, ub |-> L.ub \/ R.ub]
        ELSE ScanFrom(inp, [R EXCEPT !.ub = L.ub \/ R.ub], junk, out)

Scan(inp, junk) == ScanFrom(inp, NewLexer, junk, <<>>)

----------------------------------------------------------------------------
(* Properties *)

\* C1 (Indent/Dedent balance): in every prefix of the produced token stream
\* the Dedent tokens never outnumber the Indent tokens, their difference is
\* current_indent, which is >= 0 and moves by exactly +1 on an Indent, -1 on
\* a Dedent and not at all on any other token, and at every Eof as many
\* Indent as Dedent tokens have been produced.
IndentDedentBalance ==
    /\ current_indent >= 0
    /\ Balance(tokens) = current_indent
    /\ \A i \in 0..Len(tokens) : Balance(Prefix(tokens, i)) >= 0
    /\ \A i \in 1..Len(tokens) :
         tokens[i].type = "Eof" => Balance(Prefix(tokens, i)) = 0
    /\ Produced =>
         current_indent - prev.current_indent =
            (IF current_token.type = "Indent" THEN 1
             ELSE IF current_token.type = "Dedent" THEN -1 ELSE 0)

\* a scan that opened two levels, closed them and reached Eof
BalancedScanReachesEof ==
    /\ Produced
    /\ current_token.type = "Eof"
    /\ Count(tokens, "Indent") >= 2
    /\ Count(tokens, "Dedent") >= 2

\* C2 (Eof is absorbing): once an advance has produced Eof, every later
\* advance produces Eof again and leaves start_of_line, current_indent and
\* line_indent as they were.
EofIsAbsorbing ==
    /\ \A i \in 1..Len(tokens) : \A j \in i..Len(tokens) :
         tokens[i].type = "Eof" => tokens[j].type = "Eof"
    /\ (IsAdvance /\ op # "Lexer" /\ prev.current_token.type = "Eof") =>
         /\ Produced
         /\ current_token.type = "Eof"
         /\ start_of_line = prev.start_of_line
         /\ current_indent = prev.current_indent
         /\ line_indent = prev.line_indent

\* an advance made after Eof, with a non-zero line_indent left to keep
AdvancedAfterEof ==
    /\ op = "NextToken"
    /\ prev.current_token.type = "Eof"
    /\ prev.line_indent > 0

\* C3 (end of input closes the indentation): Eof is only produced with
\* start_of_line true and current_indent = 0; an advance made at a line
\* start with nothing but the end of input ahead produces Dedent and closes
\* one level (still at the end of input) while current_indent > 0, and
\* produces Eof only when current_indent = 0.
EndOfInputClosesIndentation ==
    /\ current_token.type = "Eof" => start_of_line /\ current_indent = 0
    /\ (IsAdvance /\ AtEndOfInput(prev)) =>
         /\ Produced
         /\ IF prev.current_indent > 0
            THEN /\ current_token.type = "Dedent"
                 /\ current_indent = prev.current_indent - 1
                 /\ AtEndOfInput(Here)
            ELSE current_token.type = "Eof"

\* end of input met two levels deep: Dedent, Dedent, then Eof
TwoLevelsClosedAtEof ==
    /\ Produced
    /\ current_token.type = "Eof"
    /\ Len(tokens) >= 3
    /\ tokens[Len(tokens) - 1].type = "Dedent"
    /\ tokens[Len(tokens) - 2].type = "Dedent"
    /\ prev.current_token.type = "Dedent"

\* C4 (one structural token per advance, one level at a time): when the
\* first real token of a line is read (the reader starts at tok_begin with
\* start_of_line true), the line holds k spaces in front of it, and with c the
\* depth at which the line was entered the advances since the last
\* non-structural token produced exactly |k/2 - c| tokens, all Indent if
\* k/2 > c and all Dedent if k/2 < c, and current_indent = k/2.
OneLevelPerAdvance ==
    (IsAdvance /\ reader # "none" /\ prev.start_of_line) =>
        LET before == Prefix(tokens, prev.ntok)
            first == LineStart(input, tok_begin)
            k == tok_begin - first
            j == LastNonStructural(before)
            c == Balance(Prefix(before, j))
            run == SubSeq(before, j + 1, Len(before))
        IN  /\ \A i \in first..(tok_begin - 1) : input[i] = " "
            /\ prev.current_indent = k \div 2
            /\ current_indent = k \div 2
            /\ Len(run) = Abs(k \div 2 - c)
            /\ k \div 2 > c => \A i \in 1..Len(run) : run[i].type = "Indent"
            /\ k \div 2 < c => \A i \in 1..Len(run) : run[i].type = "Dedent"

\* a real token read after two Dedent tokens, at depth 0, from depth 2
TwoLevelDedentBeforeToken ==
    /\ Produced
    /\ reader = "name"
    /\ prev.start_of_line
    /\ Len(tokens) >= 4
    /\ tokens[Len(tokens) - 1].type = "Dedent"
    /\ tokens[Len(tokens) - 2].type = "Dedent"
    /\ tokens[Len(tokens) - 3].type = "Newline"
    /\ Count(tokens, "Indent") = 2

\* the input is one line: no newline except possibly as its last character
SingleLine(inp) == \A i \in 1..(Len(inp) - 1) : inp[i] # "\n"

\* the line does not start with a space
NoLeadingIndent(inp) == Len(inp) = 0 \/ inp[1] # " "

\* the scan has just reached its first Eof
AtFirstEof == Produced /\ current_token.type = "Eof" /\ FirstEof(tokens) = Len(tokens)

\* C5 as stated: every non-empty single-line input without leading
\* indentation ends its token stream with Newline, Eof at depth 0.
SingleLineEndsNewlineEof ==
    (AtFirstEof /\ Len(input) >= 1 /\ SingleLine(input) /\ NoLeadingIndent(input)) =>
        /\ Len(tokens) >= 2
        /\ tokens[Len(tokens) - 1].type = "Newline"
        /\ current_indent = 0

\* the line starts with a real token: not with a space, a comment or a newline
StartsWithCode(inp) == Len(inp) >= 1 /\ inp[1] \notin {" ", "#", "\n"}

\* an advance that produced no token: an exception left ReadNextToken
FailedAdvance == IsAdvance /\ ~Produced

\* C5, amended: on a single-line input an advance fails only with the
\* malformed-literal error of the string reader or with the std::out_of_range
\* of the number reader, and no Eof follows a failed advance; a single-line
\* input that starts with a real token and whose scan is ended by neither
\* ends its token stream with exactly one Newline followed by Eof, at depth
\* 0 and with no Indent or Dedent, whether or not the line ends with a
\* newline character; a blank or comment-only line yields Eof alone.
CodeLineEndsNewlineEof ==
    SingleLine(input) =>
        /\ FailedAdvance =>
              /\ \/ err = "runtime_error" /\ reader = "string"
                 \/ err = "out_of_range" /\ reader = "number"
              /\ Count(tokens, "Eof") = 0
        /\ err \in {"runtime_error", "out_of_range"} => FailedAdvance
        /\ AtFirstEof =>
              IF StartsWithCode(input)
              THEN /\ Len(tokens) >= 3
                   /\ tokens[Len(tokens) - 1].type = "Newline"
                   /\ Count(tokens, "Newline") = 1
                   /\ Count(tokens, "Indent") = 0
                   /\ Count(tokens, "Dedent") = 0
                   /\ current_indent = 0
              ELSE NoLeadingIndent(input) =>
                      /\ tokens = <<Token("Eof")>>
                      /\ current_indent = 0

\* a line of code that ends at the end of input, scanned to Eof
UnterminatedLineScanned ==
    /\ AtFirstEof
    /\ SingleLine(input)
    /\ StartsWithCode(input)
    /\ input[Len(input)] # "\n"
    /\ Len(tokens) >= 4

\* position of the first character at or after p that is not a space
RECURSIVE SkipSpaces(_, _)
SkipSpaces(inp, p) ==
    IF p <= Len(inp) /\ inp[p] = " " THEN SkipSpaces(inp, p + 1) ELSE p

\* the line starting at p is a code line: its first non-space character is
\* neither a newline nor '#' nor the end of input
IsCodeLine(inp, p) ==
    LET q == SkipSpaces(inp, p)
    IN  q <= Len(inp) /\ inp[q] \notin {"\n", "#"}

\* inp[i..j] is a whole line of spaces and/or a comment, ended by the newline
\* inp[j], that stands between two code lines
IsBlankLineBetweenCode(inp, i, j) ==
    /\ 1 < i /\ i <= j /\ j < Len(inp)
    /\ inp[i - 1] = "\n"
    /\ inp[j] = "\n"
    /\ \A m \in i..(j - 1) : inp[m] # "\n"
    /\ LET q == SkipSpaces(inp, i) IN q = j \/ inp[q] = "#"
    /\ IsCodeLine(inp, LineStart(inp, i - 1))
    /\ IsCodeLine(inp, j + 1)

Without(inp, i, j) == SubSeq(inp, 1, i - 1) \o SubSeq(inp, j + 1, Len(inp))

\* the scan is over: first Eof produced, or stopped by a literal error
ScanOver == AtFirstEof \/ (IsAdvance /\ err = "runtime_error")

\* C6 as stated (blank-line invariance): removing a blank or comment-only
\* line that stands between two code lines leaves the token sequence of the
\* whole scan (and whether it ends in a literal error) unchanged.  Scans
\* that read an uninitialized variable are left out.
BlankLineInvariance ==
    (ScanOver /\ ~ub) =>
        \A i \in 1..Len(input) : \A j \in i..Len(input) :
            IsBlankLineBetweenCode(input, i, j) =>
                LET S == Scan(Without(input, i, j), AnyJunk)
                IN  S.ub \/ (/\ S.tokens = tokens
                             /\ S.failed = (err = "runtime_error"))

\* inp[q] opens a string literal; an unescaped quote equal to it follows
RECURSIVE ClosedFrom(_, _, _)
ClosedFrom(inp, p, quote) ==
    IF p > Len(inp) THEN FALSE
    ELSE IF inp[p] = "\\" THEN ClosedFrom(inp, p + 2, quote)
    ELSE IF inp[p] = quote THEN TRUE
    ELSE ClosedFrom(inp, p + 1, quote)

HasCloser(inp, q) == ClosedFrom(inp, q + 1, inp[q])

\* a newline character stands between the opening quote inp[q] and the
\* first unescaped quote equal to it (or the end of input)
RECURSIVE NewlineFrom(_, _, _)
NewlineFrom(inp, p, quote) ==
    IF p > Len(inp) THEN FALSE
    ELSE IF inp[p] = "\\" THEN NewlineFrom(inp, p + 2, quote)
    ELSE IF inp[p] = quote THEN FALSE
    ELSE IF inp[p] = "\n" THEN TRUE
    ELSE NewlineFrom(inp, p + 1, quote)

NewlineBeforeCloser(inp, q) == NewlineFrom(inp, q + 1, inp[q])

\* C7 as stated (unterminated string at end of input): when the string
\* reader meets the end of input before an unescaped closing quote, the
\* advance fails with the malformed-literal error and current_token,
\* start_of_line, current_indent and line_indent keep their values.
UnterminatedStringFails ==
    (IsAdvance /\ reader = "string" /\ ~HasCloser(input, tok_begin)) =>
        /\ err = "runtime_error"
        /\ current_token = prev.current_token
        /\ start_of_line = prev.start_of_line
        /\ current_indent = prev.current_indent
        /\ line_indent = prev.line_indent

\* C8 as stated (a string literal cannot span lines): when the string reader
\* meets a newline character before the matching closing quote, the advance
\* fails with the malformed-literal error and produces no token.
StringCannotSpanLines ==
    (IsAdvance /\ reader = "string" /\ NewlineBeforeCloser(input, tok_begin)) =>
        /\ err = "runtime_error"
        /\ ~Produced

\* C9 as stated (current token before the first advance): on a freshly
\* created scanner the current token is a not-yet-started value, no token
\* has been read from the input and no input has been consumed.
FreshLexerNotStarted ==
    (op = "Lexer" /\ err = "none") =>
        /\ current_token = DefaultToken
        /\ tokens = <<>>
        /\ pos = 1

\* C9, amended: the constructor performs the first advance, so on a freshly
\* created scanner the current token is the first token read from the input
\* (input has been consumed unless there is none, and then it is Eof);
\* after an advance the current token (and NextToken's return value) is the
\* token that advance produced, and CurrentToken returns it without
\* advancing the scanner.
CurrentTokenIsLastProduced ==
    /\ (op = "Lexer" /\ err = "none") =>
         /\ tokens = <<current_token>>
         /\ Len(input) > 0 => pos > 1
         /\ Len(input) = 0 => current_token.type = "Eof"
    /\ (op = "NextToken" /\ err = "none") =>
         /\ Len(tokens) = prev.ntok + 1
         /\ current_token = tokens[Len(tokens)]
         /\ result = current_token
    /\ op = "CurrentToken" =>
         /\ SameFields
         /\ err = "none"
         /\ result = tokens[Len(tokens)]

\* CurrentToken called after the constructor and one NextToken
PeekedAfterAdvance ==
    /\ op = "CurrentToken"
    /\ Len(tokens) >= 2
    /\ result.type = "Id"
    /\ pos > 1

\* the current token is of the expected variant and, for the valued form,
\* carries exactly the expected value
Matches(tok, e) == tok.type = e.tok.type /\ (e.valued => tok = e.tok)

\* C10 (typed expectation helpers): Expect succeeds iff the current token
\* matches and fails with LexerError otherwise, leaving the scanner as it
\* was; ExpectNext performs exactly one advance and applies the same check to
\* the token it produced, which stays the current token when the check fails.
ExpectationHelpers ==
    /\ op = "Expect" =>
         /\ SameFields
         /\ err \in {"none", "LexerError"}
         /\ err = "none" <=> Matches(current_token, expected)
    /\ (op = "ExpectNext" /\ err \notin {"runtime_error", "out_of_range"}) =>
         /\ Len(tokens) = prev.ntok + 1
         /\ current_token = tokens[Len(tokens)]
         /\ err \in {"none", "LexerError"}
         /\ err = "none" <=> Matches(current_token, expected)

\* ExpectNext<Id>("x") failed on a newly produced Id of another name
ExpectNextFailedOnValue ==
    /\ op = "ExpectNext"
    /\ err = "LexerError"
    /\ expected.valued
    /\ current_token.type = expected.tok.type
    /\ current_token # prev.current_token


\* the token of the comparison operator that starts with ch
ComparisonToken(ch) ==
    CASE ch = "=" -> Token("Eq")
      [] ch = "!" -> Token("NotEq")
      [] ch = "<" -> Token("LessOrEq")
      [] ch = ">" -> Token("GreaterOrEq")

\* C11 (two-character operator dispatch): the operator reader runs exactly
\* when the character at which the token starts begins neither a number, a
\* name nor a string; it then produces Eq, NotEq, LessOrEq or GreaterOrEq
\* and consumes exactly two characters if and only if the next two
\* characters are '==', '!=', '<=' or '>=', and otherwise consumes exactly
\* one character and produces Char of it, the second character (a newline
\* or the end of input included) being left unconsumed; matching is greedy
\* from the left.
OperatorDispatch ==
    (IsAdvance /\ reader # "none") =>
        LET a == input[tok_begin]
            b == Peek(input, tok_begin + 1)
            other == ~IsNum(a) /\ ~IsAlNumLL(a) /\ a \notin {"\"", "'"}
        IN  /\ reader = "char" <=> other
            /\ reader = "char" =>
                 /\ Produced
                 /\ IF a \in {"=", "!", "<", ">"} /\ b = "="
                    THEN /\ current_token = ComparisonToken(a)
                         /\ pos = tok_begin + 2
                    ELSE /\ current_token = CharToken(a)
                         /\ pos = tok_begin + 1
                         /\ Peek(input, pos) = b

\* '===' scanned: Eq, then Char('=') for the third character
GreedyEqThenChar ==
    /\ Produced
    /\ reader = "char"
    /\ current_token = CharToken("=")
    /\ prev.current_token.type = "Eq"
    /\ tok_begin = prev.pos
    /\ tok_begin >= 3
    /\ input[tok_begin - 1] = "="
    /\ input[tok_begin - 2] = "="

\* position of the first unescaped character equal to quote at or after p
\* (0 if there is none); a backslash escapes the character after it
RECURSIVE CloserFrom(_, _, _)
CloserFrom(inp, p, quote) ==
    IF p > Len(inp) THEN 0
    ELSE IF inp[p] = "\\" THEN CloserFrom(inp, p + 2, quote)
    ELSE IF inp[p] = quote THEN p
    ELSE CloserFrom(inp, p + 1, quote)

\* what the escape sequence backslash-ch stands for
Contribution(ch) ==
    CASE ch = "\"" -> <<"\"">>
      [] ch = "'" -> <<"'">>
      [] ch = "n" -> <<"\n">>
      [] ch = "t" -> <<"\t">>
      [] OTHER -> <<>>

\* the value of the literal text inp[p..e-1]
RECURSIVE Decoded(_, _, _)
Decoded(inp, p, e) ==
    IF p >= e THEN <<>>
    ELSE IF inp[p] = "\\"
    THEN Contribution(inp[p + 1]) \o Decoded(inp, p + 2, e)
    ELSE <<inp[p]>> \o Decoded(inp, p + 1, e)

\* C12 (string escape processing): inside a string literal a backslash
\* followed by '"', ''', 'n' or 't' contributes a double quote, a single
\* quote, a newline or a tab, and a backslash followed by any other
\* character (another backslash included) contributes nothing, both being
\* dropped; an escaped quote never ends the literal; the literal ends at the
\* first unescaped character equal to its opening quote, and the other kind
\* of quote is kept as an ordinary character.
StringEscapes ==
    (IsAdvance /\ reader = "string") =>
        LET e == CloserFrom(input, tok_begin + 1, input[tok_begin])
        IN  /\ e # 0 =>
                 /\ Produced
                 /\ current_token =
                        StringToken(Decoded(input, tok_begin + 1, e))
                 /\ pos = e + 1
            /\ (Produced /\ ~ub) => e # 0

\* a literal whose text holds an escaped opening quote, a dropped escape
\* sequence and the other kind of quote
EscapesDecoded ==
    /\ Produced
    /\ reader = "string"
    /\ \E i, j, k \in (tok_begin + 1)..(pos - 2) :
         /\ input[i] = "\\" /\ input[i + 1] = input[tok_begin]
         /\ input[j] = "\\" /\ input[j + 1] \notin {"\"", "'", "n", "t"}
         /\ (k = tok_begin + 1 \/ input[k - 1] # "\\")
         /\ input[k] \in {"\"", "'"} /\ input[k] # input[tok_begin]

IsNameChar(ch) == ch \in Letters \cup Digits \cup {"_"}

\* end (exclusive) of the maximal run of characters of set S that starts at p
RunEnd(inp, p, S) ==
    CHOOSE e \in p..(Len(inp) + 1) :
        /\ \A i \in p..(e - 1) : inp[i] \in S
        /\ e <= Len(inp) => inp[e] \notin S

\* the token of the keyword spelled by word, Void if word is no keyword
AsKeyword(word) ==
    IF word = <<"c", "l", "a", "s", "s">> THEN Token("Class")
    ELSE IF word = <<"r", "e", "t", "u", "r", "n">> THEN Token("Return")
    ELSE IF word = <<"i", "f">> THEN Token("If")
    ELSE IF word = <<"e", "l", "s", "e">> THEN Token("Else")
    ELSE IF word = <<"d", "e", "f">> THEN Token("Def")
    ELSE IF word = <<"p", "r", "i", "n", "t">> THEN Token("Print")
    ELSE IF word = <<"a", "n", "d">> THEN Token("And")
    ELSE IF word = <<"o", "r">> THEN Token("Or")
    ELSE IF word = <<"n", "o", "t">> THEN Token("Not")
    ELSE IF word = <<"N", "o", "n", "e">> THEN Token("None")
    ELSE IF word = <<"T", "r", "u", "e">> THEN Token("True")
    ELSE IF word = <<"F", "a", "l", "s", "e">> THEN Token("False")
    ELSE Void

\* decimal value of a run of digits
RECURSIVE DecimalUpTo(_, _)
DecimalUpTo(run, n) ==
    IF n = 0 THEN 0
    ELSE 10 * DecimalUpTo(run, n - 1) + DigitValue(run[n])

Decimal(run) == DecimalUpTo(run, Len(run))

\* C13 as stated (keyword versus identifier): a maximal run of name characters
\* (letters, digits, '_') whose first character is not a digit yields one of
\* the twelve keyword tokens if and only if the whole run is exactly, case
\* included, a keyword, and otherwise an Identifier that carries the whole
\* run; a run that starts with a digit first yields a Number for its maximal
\* digit prefix; the token depends on the text of the run alone, not on the
\* indentation state or the position in the line.
KeywordOrIdentifier ==
    /\ (IsAdvance /\ reader = "name") =>
         LET e == RunEnd(input, tok_begin, Letters \cup Digits \cup {"_"})
             run == SubSeq(input, tok_begin, e - 1)
         IN  /\ input[tok_begin] \notin Digits
             /\ Produced
             /\ pos = e
             /\ current_token =
                    IF AsKeyword(run) # Void THEN AsKeyword(run) ELSE IdToken(run)
    /\ (IsAdvance /\ reader = "number") =>
         LET e == RunEnd(input, tok_begin, Digits)
         IN  /\ Produced
             /\ e > tok_begin
             /\ pos = e
             /\ current_token = NumberToken(Decimal(SubSeq(input, tok_begin, e - 1)))
    /\ (IsAdvance /\ reader # "none" /\ IsNameChar(input[tok_begin])) =>
         reader = (IF input[tok_begin] \in Digits THEN "number" ELSE "name")

\* the run of digits without its leading zeros
RECURSIVE Significant(_)
Significant(run) ==
    IF run # <<>> /\ run[1] = "0" THEN Significant(Tail(run)) ELSE run

\* the value of the run of digits is at most 2147483647
FitsInt(run) ==
    LET sig == Significant(run)
    IN  \/ Len(sig) < 10
        \/ /\ Len(sig) = 10
           /\ \/ Decimal(SubSeq(sig, 1, 9)) < 214748364
              \/ /\ Decimal(SubSeq(sig, 1, 9)) = 214748364
                 /\ DigitValue(sig[10]) <= 7

\* C13, amended: a maximal run of name characters whose first character is
\* not a digit yields one of the twelve keyword tokens if and only if the
\* whole run is exactly, case included, a keyword, and otherwise an
\* Identifier that carries the whole run; a run that starts with a digit
\* first has its maximal digit prefix consumed, which yields a Number of
\* its value if that value fits an int, and otherwise makes the advance
\* fail with std::out_of_range, no token being produced and current_token,
\* start_of_line and current_indent keeping their values; line_indent keeps
\* its value when the number is met inside a line and is the indentation of
\* the number's line (half its leading spaces, equal to current_indent) when
\* the number is the first token of its line; which token is produced, or
\* that none is, depends on the text of the run alone.
KeywordOrNumberInRange ==
    /\ (IsAdvance /\ reader = "name") =>
         LET e == RunEnd(input, tok_begin, Letters \cup Digits \cup {"_"})
             run == SubSeq(input, tok_begin, e - 1)
         IN  /\ input[tok_begin] \notin Digits
             /\ Produced
             /\ pos = e
             /\ current_token =
                    IF AsKeyword(run) # Void THEN AsKeyword(run) ELSE IdToken(run)
    /\ (IsAdvance /\ reader = "number") =>
         LET e == RunEnd(input, tok_begin, Digits)
             run == SubSeq(input, tok_begin, e - 1)
         IN  /\ e > tok_begin
             /\ pos = e
             /\ IF FitsInt(run)
                THEN /\ Produced
                     /\ current_token = NumberToken(Decimal(Significant(run)))
                ELSE /\ err = "out_of_range"
                     /\ ~Produced
                     /\ current_token = prev.current_token
                     /\ start_of_line = prev.start_of_line
                     /\ current_indent = prev.current_indent
                     /\ line_indent =
                            IF prev.start_of_line
                            THEN (tok_begin - LineStart(input, tok_begin)) \div 2
                            ELSE prev.line_indent
                     /\ prev.start_of_line => line_indent = current_indent
    /\ (IsAdvance /\ reader # "none" /\ IsNameChar(input[tok_begin])) =>
         reader = (IF input[tok_begin] \in Digits THEN "number" ELSE "name")

\* a number beyond the largest int met as the third token of a line: the
\* advance fails after its eleven digits, the current token is still '='
NumberBeyondIntFails ==
    /\ IsAdvance
    /\ reader = "number"
    /\ err = "out_of_range"
    /\ pos - tok_begin = 11
    /\ Len(tokens) = 2
    /\ current_token = CharToken("=")

\* a number beyond the largest int met as the first token of an indented
\* line, at the depth of the line before: the advance fails after the
\* leading spaces have set line_indent anew
IndentedNumberBeyondIntFails ==
    /\ IsAdvance
    /\ reader = "number"
    /\ err = "out_of_range"
    /\ prev.start_of_line
    /\ start_of_line
    /\ prev.line_indent = 0
    /\ line_indent = 1
    /\ current_indent = 1
    /\ current_token = Token("Newline")

\* the keyword 'if' read as the first token of an indented line, right
\* after the Indent
KeywordAfterIndent ==
    /\ Produced
    /\ reader = "name"
    /\ current_token = Token("If")
    /\ prev.current_token.type = "Indent"
    /\ prev.start_of_line
    /\ tok_begin >= 3


\* C14 as stated (indent synchronisation): whenever an advance produces a
\* token that is neither Indent nor Dedent (Newline and Eof included),
\* current_indent = line_indent.
NonStructuralInSync ==
    (Produced /\ ~Structural(current_token)) => current_indent = line_indent

\* a token read by one of the literal readers: Number, Id, a keyword,
\* String, Char or an operator
IsReal(t) ==
    t.type \notin {"Newline", "Indent", "Dedent", "Eof", "void"}

\* C14, amended: whenever an advance produces a real token,
\* current_indent = line_indent; a Newline is produced with line_indent
\* reset to 0 whatever current_indent is, and an Eof with current_indent = 0
\* whatever line_indent is.
RealTokenInSync ==
    /\ (Produced /\ IsReal(current_token)) => current_indent = line_indent
    /\ (Produced /\ current_token.type = "Newline") => line_indent = 0
    /\ (Produced /\ current_token.type = "Eof") => current_indent = 0

\* a real token in the middle of a line of depth 1, after a run of spaces
\* whose length is not that of the line's indentation
MidLineTokenInSync ==
    /\ Produced
    /\ IsReal(current_token)
    /\ ~prev.start_of_line
    /\ current_indent = 1
    /\ tok_begin - prev.pos = 1
    /\ \A i \in prev.pos..(tok_begin - 1) : input[i] = " "

\* C15 (start_of_line): start_of_line is true at the creation of the
\* scanner; after every advance it is false if and only if the token just
\* produced is a real token, hence true after Newline, Indent, Dedent and
\* Eof; Indent and Dedent are only produced by advances that start and end
\* with start_of_line true; and the spaces consumed by an advance that starts
\* with start_of_line false do not change line_indent.
StartOfLineTracksRealTokens ==
    /\ op = "Lexer" => prev.start_of_line
    /\ Produced =>
         /\ ~start_of_line <=> IsReal(current_token)
         /\ IsReal(current_token) <=> reader # "none"
         /\ Structural(current_token) => prev.start_of_line /\ start_of_line
         /\ (~prev.start_of_line /\ IsReal(current_token)) =>
                /\ line_indent = prev.line_indent
                /\ \A i \in prev.pos..(tok_begin - 1) : input[i] = " "

\* two real tokens of one line with two spaces between them, at depth 0
SpacesInsideLine ==
    /\ Produced
    /\ IsReal(current_token)
    /\ ~prev.start_of_line
    /\ ~start_of_line
    /\ tok_begin - prev.pos = 2
    /\ line_indent = 0

\* the advance just made started inside a line (after a real token) and met
\* a comment: after the spaces that follow the last token stands a '#'
MetTrailingComment ==
    /\ IsAdvance
    /\ ~prev.start_of_line
    /\ Peek(input, SkipSpaces(input, prev.pos)) = "#"

\* C16 (trailing comments are transparent): a '#' comment that follows at
\* least one real token of its line yields no token of its own and the line
\* still yields exactly one Newline, whether the comment is ended by a
\* newline or by the end of input; removing the comment's text (from '#' up
\* to, not including, the newline) leaves the token sequence of the whole
\* scan unchanged.  Scans that read an uninitialized variable are left out
\* of the comparison.
TrailingCommentsTransparent ==
    MetTrailingComment =>
        LET h == SkipSpaces(input, prev.pos)
            e == SkipComment(input, h)
            A == Scan(input, AnyJunk)
            B == Scan(Without(input, h, e - 1), AnyJunk)
        IN  /\ Produced
            /\ current_token = Token("Newline")
            /\ IsReal(tokens[Len(tokens) - 1])
            /\ pos = IF e > Len(input) THEN e ELSE e + 1
            /\ A.ub \/ B.ub \/ (A.tokens = B.tokens /\ A.failed = B.failed)

\* a comment with some text, ended by the end of input, after a real token
CommentEndedByEndOfInput ==
    /\ MetTrailingComment
    /\ Produced
    /\ current_token = Token("Newline")
    /\ pos = Len(input) + 1
    /\ input[Len(input)] # "\n"
    /\ pos - SkipSpaces(input, prev.pos) >= 2

\* Some string literal of inp holds a newline character.  The text is read
\* from position p on in mode "code", "comment" or, inside a literal, the
\* literal's opening quote.
RECURSIVE LiteralHoldsNewline(_, _, _)
LiteralHoldsNewline(inp, p, mode) ==
    IF p > Len(inp) THEN FALSE
    ELSE IF mode = "code"
    THEN LiteralHoldsNewline(inp, p + 1,
             IF inp[p] = "#" THEN "comment"
             ELSE IF inp[p] \in {"\"", "'"} THEN inp[p]
             ELSE "code")
    ELSE IF mode = "comment"
    THEN LiteralHoldsNewline(inp, p + 1,
             IF inp[p] = "\n" THEN "code" ELSE "comment")
    ELSE IF inp[p] = "\n" THEN TRUE
    ELSE IF inp[p] = "\\"
    THEN Peek(inp, p + 1) = "\n" \/ LiteralHoldsNewline(inp, p + 2, mode)
    ELSE LiteralHoldsNewline(inp, p + 1, IF inp[p] = mode THEN "code" ELSE mode)

\* first positions of the lines of inp that hold a real token
CodeLines(inp) ==
    { p \in 1..Len(inp) : (p = 1 \/ inp[p - 1] = "\n") /\ IsCodeLine(inp, p) }

\* the code lines of which the scanner at position p has read a token
CodeLinesBegun(inp, p) == { s \in CodeLines(inp) : SkipSpaces(inp, s) < p }

\* C17 (Newline count equals code-line count): for any input without string
\* literals that contain a newline, the number of Newline tokens before Eof
\* equals the number of input lines on which at least one real token is
\* produced; each such line yields exactly one Newline, produced after its
\* last real token, also when the last line is ended by the end of input.
NewlinePerCodeLine ==
    (err = "none" /\ ~LiteralHoldsNewline(input, 1, "code")) =>
        /\ Count(tokens, "Newline") + (IF start_of_line THEN 0 ELSE 1)
              = Cardinality(CodeLinesBegun(input, pos))
        /\ (IsAdvance /\ reader # "none") =>
              LineStart(input, tok_begin) \in CodeLinesBegun(input, pos)
        /\ (Produced /\ current_token.type = "Newline") =>
              /\ IsReal(tokens[Len(tokens) - 1])
              /\ pos = ReadLine(input, prev.pos)
        /\ AtFirstEof =>
              Count(tokens, "Newline") = Cardinality(CodeLines(input))

\* a scan of three code lines, the last one ended by the end of input, with
\* a blank line among them
ThreeCodeLinesScanned ==
    /\ AtFirstEof
    /\ Count(tokens, "Newline") = 3
    /\ input[Len(input)] # "\n"
    /\ \E i \in 2..Len(input) : input[i] = "\n" /\ input[i - 1] = "\n"

\* C18 as stated (termination): every advance returns after finitely many
\* internal re-dispatches, each of which has consumed at least one
\* character, and a caller that keeps advancing obtains Eof after finitely
\* many advances unless a literal error (the error of the string reader)
\* ends the scan.
AdvancesReachEof ==
    /\ [](IsAdvance => skips <= pos - prev.pos)
    /\ <>(current_token.type = "Eof" \/ err = "runtime_error")

\* C18, amended: every advance returns after finitely many internal
\* re-dispatches, each of which has consumed at least one character, and a
\* caller that keeps advancing obtains Eof after finitely many advances
\* unless the error of the string reader or the std::out_of_range of a
\* number that does not fit an int ends the scan.
AdvancesReachEofOrFail ==
    /\ [](IsAdvance => skips <= pos - prev.pos)
    /\ <>(current_token.type = "Eof"
             \/ err \in {"runtime_error", "out_of_range"})

\* a scan that reached Eof by an advance that re-dispatched three times
\* (comment and blank lines after the last code line)
SkippingAdvanceReachedEof ==
    /\ AtFirstEof
    /\ Len(tokens) >= 3
    /\ skips >= 3
    /\ pos - prev.pos >= 3

\* C19 (no empty logical lines): the first token produced is never Newline,
\* two Newline tokens are never adjacent, and every Newline is immediately
\* preceded by a real token (never by Indent, Dedent or another Newline).
NoEmptyLogicalLines ==
    \A i \in 1..Len(tokens) :
        tokens[i].type = "Newline" => i > 1 /\ IsReal(tokens[i - 1])

\* the Newline of a second code line, with a blank line read before it
SecondNewlineAfterBlankLine ==
    /\ Produced
    /\ current_token.type = "Newline"
    /\ Count(tokens, "Newline") = 2
    /\ \E i \in 2..(prev.pos - 1) : input[i] = "\n" /\ input[i - 1] = "\n"

\* C20 (placement of the structural tokens): Indent is produced only as the
\* first token or right after a Newline or another Indent; the token right
\* after an Indent is another Indent or a real token (never Dedent, Newline
\* or Eof); the token right after a Dedent is another Dedent, a real token
\* or Eof (never Indent or Newline); the token right before the first Eof,
\* if there is one, is a Newline or a Dedent.
StructuralTokenPlacement ==
    \A i \in 1..Len(tokens) :
        /\ (tokens[i].type = "Indent" /\ i > 1) =>
              tokens[i - 1].type \in {"Newline", "Indent"}
        /\ (i > 1 /\ tokens[i - 1].type = "Indent") =>
              tokens[i].type = "Indent" \/ IsReal(tokens[i])
        /\ (i > 1 /\ tokens[i - 1].type = "Dedent") =>
              tokens[i].type \in {"Dedent", "Eof"} \/ IsReal(tokens[i])
        /\ (i > 1 /\ i = FirstEof(tokens)) =>
              tokens[i - 1].type \in {"Newline", "Dedent"}

\* a scan to Eof with two adjacent Indent tokens, a Dedent followed by a
\* real token and a Newline right before Eof
IndentRunAndDedentBeforeToken ==
    /\ AtFirstEof
    /\ Len(tokens) >= 2
    /\ tokens[Len(tokens) - 1].type = "Newline"
    /\ \E i \in 2..Len(tokens) :
          tokens[i - 1].type = "Indent" /\ tokens[i].type = "Indent"
    /\ \E j \in 2..Len(tokens) :
          tokens[j - 1].type = "Dedent" /\ IsReal(tokens[j])

=============================================================================
